---- MODULE Spec2Model ----
(***************************************************************************)
(* tklib-rs: ModInt (src/src/modint.rs), Combination                       *)
(* (src/src/math/combination.rs) and Fenwick                               *)
(* (src/src/data_structures/fenwick.rs).                                   *)
(*                                                                         *)
(* Machine words.  ModValue is u64 and Fenwick holds i64.  TLC's integers  *)
(* are 32 bits wide, so a word is modelled with WordBits bits (IntBits for *)
(* the signed words of Fenwick): every threshold of the source scales with *)
(* it (2^64 -> Word, 2^32 -> the square root of Word, 2^63 -> Word / 2).   *)
(* An arithmetic overflow is not undefined in Rust, but its outcome is the *)
(* build's: with overflow checks (the debug and test profiles) the         *)
(* operation panics, without them (the release profile) it wraps.  The     *)
(* variable overflow_checks holds the build's choice.                      *)
(***************************************************************************)
EXTENDS Integers, Sequences, FiniteSets, TLC

VARIABLES
    overflow_checks, \* the build: TRUE = overflow panics, FALSE = it wraps
    modulus,         \* Mod::modulus() of the ModInt type in use
    self,            \* ModInt.value of the value the program holds
    op,              \* the operation that produced self
    lhs,             \* its left operand (the raw value for "new")
    rhs,             \* its right operand, or the exponent of pow
    panicked,        \* the operation panicked: its process has aborted
    c_pc,            \* Combination: "idle", "start", "built", "panicked"
    comb,            \* the Combination: [fac, facinv, modulus]
    c_args,          \* the arguments of Combination::new: [maximum, modulus]
    query,           \* the last query of comb: [op, n, m, out]
    f_pc,            \* Fenwick: "idle", "start", "ready", "asked", "panicked",
                     \* and "adding", "added" while add is followed by turns
    table,           \* Fenwick.table (element i of the Vec is table[i + 1])
    arr,             \* the plain 1-indexed array the Fenwick tree stands for
    f_query,         \* the sum asked last: [i, out]
    walk             \* the add followed by turns: [i0, i, x, t0, turns, written]

mvars == <<modulus, self, op, lhs, rhs, panicked>>

cvars == <<c_pc, comb, c_args, query>>

fvars == <<f_pc, table, arr, f_query, walk>>

vars == <<overflow_checks, mvars, cvars, fvars>>

\* ------------------------------------------------------------------ words

WordBits == 4

IntBits == 2

Word == 2 ^ WordBits

Words == 0 .. (Word - 1)

\* A result of a Rust expression: a value, or a panic.
Ok(v) == [ok |-> TRUE, v |-> v]

Panic == [ok |-> FALSE, v |-> 0]

\* u64 `a + b`
UAdd(a, b) ==
    IF a + b >= Word /\ overflow_checks THEN Panic ELSE Ok((a + b) % Word)

\* u64 `a - b`
USub(a, b) ==
    IF a < b /\ overflow_checks THEN Panic ELSE Ok((a - b + Word) % Word)

\* u64 `a * b`
UMul(a, b) ==
    IF a * b >= Word /\ overflow_checks THEN Panic ELSE Ok((a * b) % Word)

\* ----------------------------------------------------------------- ModInt

\* ModInt::new
New(value) ==
    Ok(IF value < modulus THEN value ELSE value % modulus)

\* impl Add for ModInt
Add(a, b) ==
    LET out == UAdd(a, b)
    IN  IF ~out.ok THEN Panic
        ELSE IF out.v < modulus THEN Ok(out.v) ELSE USub(out.v, modulus)

\* impl Mul for ModInt
Mul(a, b) ==
    LET out == UMul(a, b)
    IN  IF ~out.ok THEN Panic ELSE New(out.v)

\* impl Neg for ModInt
Neg(a) ==
    IF a = 0 THEN Ok(0) ELSE USub(modulus, a)

\* impl Sub for ModInt
Sub(a, b) ==
    IF a < b
    THEN LET t == UAdd(modulus, a)
         IN  IF ~t.ok THEN Panic ELSE USub(t.v, b)
    ELSE USub(a, b)

\* A plausible slip: InvLoop with the three assertions after the loop left out.
RECURSIVE InvLoopUnasserted(_, _, _, _)
InvLoopUnasserted(a, b, x, y) ==
    IF a = 0
    THEN Ok(y)
    ELSE LET q  == b \div a
             aq == UMul(a, q)
             b2 == IF aq.ok THEN USub(b, aq.v) ELSE Panic
             xq == Mul(x, New(q).v)
             y2 == IF xq.ok THEN Sub(y, xq.v) ELSE Panic
         IN  IF ~b2.ok \/ ~y2.ok THEN Panic
             ELSE InvLoopUnasserted(b2.v, a, y2.v, x)

\* ModInt::inv, the while loop and the assertions after it:
\* a, b are u64, x, y are ModInt values.
RECURSIVE InvLoop(_, _, _, _)
InvLoop(a, b, x, y) ==
    IF a = 0
    THEN IF b = 1 /\ x = 0 THEN Ok(y) ELSE Panic
    ELSE LET q  == b \div a
             aq == UMul(a, q)
             b2 == IF aq.ok THEN USub(b, aq.v) ELSE Panic
             xq == Mul(x, New(q).v)
             y2 == IF xq.ok THEN Sub(y, xq.v) ELSE Panic
         IN  IF ~b2.ok \/ ~y2.ok THEN Panic
             ELSE InvLoop(b2.v, a, y2.v, x)

\* ModInt::inv
Inv(a) ==
    IF a = 0 THEN Panic ELSE InvLoop(a, modulus, 1, 0)

\* impl Div for ModInt
Div(a, b) ==
    LET i == Inv(b)
    IN  IF ~i.ok THEN Panic ELSE Mul(a, i.v)

\* ModInt::pow, the while loop
RECURSIVE PowLoop(_, _, _)
PowLoop(base, acc, exp) ==
    IF exp = 0 THEN Ok(acc)
    ELSE LET acc2  == IF exp % 2 = 1 THEN Mul(acc, base) ELSE Ok(acc)
             base2 == Mul(base, base)
         IN  IF ~acc2.ok \/ ~base2.ok THEN Panic
             ELSE PowLoop(base2.v, acc2.v, exp \div 2)

\* ModInt::pow
Pow(a, exp) == PowLoop(a, 1, exp)

\* op_assign_impl!: `*self = self.$op(rhs)`
OpAssign(name, a, b) ==
    CASE name = "add" -> Add(a, b)
      [] name = "sub" -> Sub(a, b)
      [] name = "mul" -> Mul(a, b)
      [] name = "div" -> Div(a, b)

\* The moduli a ModTrait implementation returns here: the small ones, from
\* those no product of two residues overflows the word with up to those some
\* products overflow it with, and the ones next to the word's capacity, with
\* which sums of two residues overflow it too.  (ModInt::new divides by the
\* modulus, so that no value exists under the modulus 0.)
Moduli == { m \in 1 .. (Word - 1) : m <= 7 \/ m >= Word - 3 }

\* The values ModInt::new makes of the raw u64 values.
Residues == { New(raw).v : raw \in Words }

\* No ModInt is in use.
IdleModInt ==
    /\ modulus = 1
    /\ self = 0
    /\ op = "none"
    /\ lhs = 0
    /\ rhs = 0
    /\ panicked = FALSE

\* No Combination is in use.
NoComb == [fac |-> <<>>, facinv |-> <<>>, modulus |-> 0]

NoQuery == [op |-> "none", n |-> 0, m |-> 0, out |-> Ok(0)]

IdleComb ==
    /\ c_pc = "idle"
    /\ comb = NoComb
    /\ c_args = [maximum |-> 0, modulus |-> 0]
    /\ query = NoQuery

\* No add is under way.
NoWalk == [i0 |-> 0, i |-> 0, x |-> 0, t0 |-> <<>>, turns |-> 0, written |-> {}]

\* No Fenwick is in use.
IdleFenwick ==
    /\ f_pc = "idle"
    /\ table = <<0>>
    /\ arr = <<>>
    /\ f_query = [i |-> 0, out |-> Ok(0)]
    /\ walk = NoWalk

InitModInt ==
    /\ IdleComb
    /\ IdleFenwick
    /\ overflow_checks \in BOOLEAN
    /\ modulus \in Moduli
    /\ \E raw \in Words :
          /\ self = New(raw).v
          /\ lhs = raw
    /\ op = "new"
    /\ rhs = 0
    /\ panicked = FALSE

\* The program applies `name` to the value it holds and to r, and keeps the
\* result; a panic ends the program.
Apply(name, r, res) ==
    /\ ~panicked
    /\ op' = name
    /\ lhs' = self
    /\ rhs' = r
    /\ panicked' = ~res.ok
    /\ self' = IF res.ok THEN res.v ELSE self
    /\ UNCHANGED <<overflow_checks, modulus, cvars, fvars>>

DoAdd ==
    \E r \in Residues :
        \E res \in {OpAssign("add", self, r)} : Apply("add", r, res)

DoSub ==
    \E r \in Residues :
        \E res \in {OpAssign("sub", self, r)} : Apply("sub", r, res)

DoMul ==
    \E r \in Residues :
        \E res \in {OpAssign("mul", self, r)} : Apply("mul", r, res)

DoDiv ==
    \E r \in Residues :
        \E res \in {OpAssign("div", self, r)} : Apply("div", r, res)

DoNeg == \E res \in {Neg(self)} : Apply("neg", 0, res)

DoInv == \E res \in {Inv(self)} : Apply("inv", 0, res)

DoPow == \E e \in Words : \E res \in {Pow(self, e)} : Apply("pow", e, res)

NextModInt == DoAdd \/ DoSub \/ DoMul \/ DoDiv \/ DoNeg \/ DoInv \/ DoPow

SpecModInt == InitModInt /\ [][NextModInt]_vars

\* ------------------------------------------------------------ Combination

MaxN == 4

\* `if *state >= modulus { *state %= modulus }`
Reduce(v, p) == IF v >= p THEN v % p ELSE v

\* `*state *= x` and the reduction after it (the scan closures of new, and
\* the two steps of the loop of inv)
MulReduce(state, x, p) ==
    LET t == UMul(state, x)
    IN  IF ~t.ok THEN Panic ELSE Ok(Reduce(t.v, p))

\* Combination::inv, the while loop
RECURSIVE CombInvLoop(_, _, _, _)
CombInvLoop(acc, base, exp, p) ==
    IF exp = 0 THEN Ok(acc)
    ELSE LET acc2  == IF exp % 2 = 1 THEN MulReduce(acc, base, p) ELSE Ok(acc)
             base2 == MulReduce(base, base, p)
         IN  IF ~acc2.ok \/ ~base2.ok THEN Panic
             ELSE CombInvLoop(acc2.v, base2.v, exp \div 2, p)

\* Combination::inv
CombInv(a, p) ==
    LET exp == USub(p, 2)
    IN  IF ~exp.ok THEN Panic ELSE CombInvLoop(1, a, exp.v, p)

\* Combination::new, fac: element i of once(1).chain((1..=maximum).scan(..))
RECURSIVE FacScan(_, _)
FacScan(i, p) ==
    IF i = 0 THEN Ok(1)
    ELSE LET state == FacScan(i - 1, p)
         IN  IF ~state.ok THEN Panic ELSE MulReduce(state.v, i, p)

\* Combination::new, facinv after the reverse: element i of
\* once(fac_maximum_inv).chain((1..=maximum).rev().scan(..)), reversed
RECURSIVE FacinvScan(_, _, _, _)
FacinvScan(i, maximum, fac_maximum_inv, p) ==
    IF i = maximum THEN Ok(fac_maximum_inv)
    ELSE LET state == FacinvScan(i + 1, maximum, fac_maximum_inv, p)
         IN  IF ~state.ok THEN Panic ELSE MulReduce(state.v, i + 1, p)

\* Combination::new: the Combination in v, or a panic.  Element i of a Vec
\* is element i + 1 of the sequence.
CombNew(maximum, p) ==
    IF ~(maximum < p) THEN Panic
    ELSE LET top == FacScan(maximum, p)
             fac_maximum_inv == IF top.ok THEN CombInv(top.v, p) ELSE Panic
             low == IF fac_maximum_inv.ok
                    THEN FacinvScan(0, maximum, fac_maximum_inv.v, p)
                    ELSE Panic
         IN  IF ~low.ok THEN Panic
             ELSE Ok([fac    |-> [i \in 1 .. (maximum + 1) |-> FacScan(i - 1, p).v],
                      facinv |-> [i \in 1 .. (maximum + 1) |->
                                     FacinvScan(i - 1, maximum, fac_maximum_inv.v, p).v],
                      modulus |-> p])

\* Combination::fac
Fac(c, n) == IF n < Len(c.fac) THEN Ok(c.fac[n + 1]) ELSE Panic

\* Combination::facinv
Facinv(c, n) == IF n < Len(c.fac) THEN Ok(c.facinv[n + 1]) ELSE Panic

\* Combination::com
Com(c, n, m) ==
    IF ~(n >= m) THEN Panic
    ELSE LET f  == Fac(c, n)
             fm == IF f.ok THEN Facinv(c, m) ELSE Panic
             t  == IF fm.ok THEN UMul(f.v, fm.v) ELSE Panic
             fd == IF t.ok THEN Facinv(c, n - m) ELSE Panic
             u  == IF fd.ok THEN UMul(t.v % c.modulus, fd.v) ELSE Panic
         IN  IF ~u.ok THEN Panic ELSE Ok(u.v % c.modulus)

InitComb ==
    /\ IdleModInt
    /\ IdleFenwick
    /\ overflow_checks \in BOOLEAN
    /\ c_pc = "start"
    /\ comb = NoComb
    /\ c_args = [maximum |-> 0, modulus |-> 0]
    /\ query = NoQuery

\* The program calls Combination::new(maximum, p).
DoNew ==
    /\ c_pc = "start"
    /\ \E maximum \in 0 .. MaxN, p \in Words :
          \E c \in {CombNew(maximum, p)} :
              /\ c_args' = [maximum |-> maximum, modulus |-> p]
              /\ c_pc' = IF c.ok THEN "built" ELSE "panicked"
              /\ comb' = IF c.ok THEN c.v ELSE NoComb
    /\ UNCHANGED <<query, overflow_checks, mvars, fvars>>

\* The program asks the table; a panic ends the program.
Ask(name, n, m, out) ==
    /\ c_pc = "built"
    /\ query' = [op |-> name, n |-> n, m |-> m, out |-> out]
    /\ c_pc' = IF out.ok THEN "built" ELSE "panicked"
    /\ UNCHANGED <<comb, c_args, overflow_checks, mvars, fvars>>

DoFac ==
    \E n \in 0 .. (MaxN + 1) :
        \E out \in {Fac(comb, n)} : Ask("fac", n, 0, out)

DoFacinv ==
    \E n \in 0 .. (MaxN + 1) :
        \E out \in {Facinv(comb, n)} : Ask("facinv", n, 0, out)

DoCom ==
    \E n, m \in 0 .. (MaxN + 1) :
        \E out \in {Com(comb, n, m)} : Ask("com", n, m, out)

NextComb == DoNew \/ DoFac \/ DoFacinv \/ DoCom

SpecComb == InitComb /\ [][NextComb]_vars

\* ---------------------------------------------------------------- Fenwick

MaxLen == 4

\* i64: IntBits bits, two's complement
IntMin == 0 - 2 ^ (IntBits - 1)

IntMax == 2 ^ (IntBits - 1) - 1

Ints == IntMin .. IntMax

\* The i64 an integer wraps to.
SWrap(v) == ((v - IntMin) % (2 ^ IntBits)) + IntMin

\* i64 `a + b`
IAdd(a, b) ==
    IF (a + b < IntMin \/ a + b > IntMax) /\ overflow_checks
    THEN Panic
    ELSE Ok(SWrap(a + b))

\* usize `a & b`
RECURSIVE BitAnd(_, _)
BitAnd(a, b) ==
    IF a = 0 \/ b = 0 THEN 0
    ELSE (a % 2) * (b % 2) + 2 * BitAnd(a \div 2, b \div 2)

\* lsb: `i & i.wrapping_neg()`
Lsb(i) == BitAnd(i, (Word - i) % Word)

\* Fenwick::new
FenwickNew == <<0>>

\* Fenwick::from_slice, the for_each over (1..n): the table, or a panic
RECURSIVE FromSliceLoop(_, _, _)
FromSliceLoop(t, i, n) ==
    IF i >= n THEN Ok(t)
    ELSE LET j == i + Lsb(i)
         IN  IF j <= n
             THEN LET e == IAdd(t[j + 1], t[i + 1])
                  IN  IF ~e.ok THEN Panic
                      ELSE FromSliceLoop([t EXCEPT ![j + 1] = e.v], i + 1, n)
             ELSE FromSliceLoop(t, i + 1, n)

\* Fenwick::from_slice
FromSlice(src) == FromSliceLoop(<<0>> \o src, 1, Len(src))

\* Fenwick::push, the fold over i = 1, 2, 4, ... while i # k
RECURSIVE PushFold(_, _, _, _, _)
PushFold(t, n, k, i, acc) ==
    IF i = k THEN Ok(acc)
    ELSE LET e == IAdd(acc, t[n - i + 1])
         IN  IF ~e.ok THEN Panic ELSE PushFold(t, n, k, i * 2, e.v)

\* A plausible slip: push appends x itself, without the fold over the
\* nodes the new node covers.
PushNoFold(t, x) == Ok(Append(t, x))

\* Fenwick::push: the table, or a panic
Push(t, x) ==
    LET n == Len(t)
        k == Lsb(n)
        e == PushFold(t, n, k, 1, x)
    IN  IF ~e.ok THEN Panic ELSE Ok(Append(t, e.v))

\* Fenwick::sum, the sum over i, i - lsb(i), ... while i # 0
RECURSIVE SumWalk(_, _, _)
SumWalk(t, i, acc) ==
    IF i = 0 THEN Ok(acc)
    ELSE IF i >= Len(t) THEN Panic
    ELSE LET e == IAdd(acc, t[i + 1])
         IN  IF ~e.ok THEN Panic ELSE SumWalk(t, i - Lsb(i), e.v)

\* Fenwick::sum
Sum(t, i) == SumWalk(t, i, 0)

\* Fenwick::add, the for_each over i, i + lsb(i), ... while i < n.  The
\* iterator computes the successor of an item when it yields the item.
RECURSIVE AddWalk(_, _, _, _)
AddWalk(t, i, x, n) ==
    LET next == UAdd(i, Lsb(i))
    IN  IF ~next.ok THEN Panic
        ELSE IF ~(i < n) THEN Ok(t)
        ELSE LET e == IAdd(t[i + 1], x)
             IN  IF ~e.ok THEN Panic
                 ELSE AddWalk([t EXCEPT ![i + 1] = e.v], next.v, x, n)

\* Fenwick::add: the table, or a panic
FenwickAdd(t, i, x) == AddWalk(t, i, x, Len(t))

\* The slices of at most MaxLen elements
Slices == UNION { [1 .. n -> Ints] : n \in 0 .. MaxLen }

InitFenwick ==
    /\ IdleModInt
    /\ IdleComb
    /\ overflow_checks \in BOOLEAN
    /\ f_pc = "start"
    /\ table = <<0>>
    /\ arr = <<>>
    /\ f_query = [i |-> 0, out |-> Ok(0)]
    /\ walk = NoWalk

\* The program makes the tree with Fenwick::new().
DoFenwickNew ==
    /\ f_pc = "start"
    /\ f_pc' = "ready"
    /\ table' = FenwickNew
    /\ arr' = <<>>
    /\ UNCHANGED <<f_query, walk, overflow_checks, mvars, cvars>>

\* The program makes the tree with Fenwick::from_slice(src).
DoFromSlice ==
    /\ f_pc = "start"
    /\ \E src \in Slices :
          \E t \in {FromSlice(src)} :
              /\ f_pc' = IF t.ok THEN "ready" ELSE "panicked"
              /\ table' = IF t.ok THEN t.v ELSE table
              /\ arr' = IF t.ok THEN src ELSE arr
    /\ UNCHANGED <<f_query, walk, overflow_checks, mvars, cvars>>

\* push(x): the array gets x appended.
DoPush ==
    /\ f_pc = "ready"
    /\ Len(arr) < MaxLen
    /\ \E x \in Ints :
          \E t \in {Push(table, x)} :
              /\ f_pc' = IF t.ok THEN "ready" ELSE "panicked"
              /\ table' = IF t.ok THEN t.v ELSE table
              /\ arr' = IF t.ok THEN Append(arr, x) ELSE arr
    /\ UNCHANGED <<f_query, walk, overflow_checks, mvars, cvars>>

\* add(i, x) with 1 <= i <= len: element i of the array gets x added.
DoFenwickAdd ==
    /\ f_pc = "ready"
    /\ \E i \in 1 .. Len(arr), x \in Ints :
          \E t \in {FenwickAdd(table, i, x)} :
              /\ f_pc' = IF t.ok THEN "ready" ELSE "panicked"
              /\ table' = IF t.ok THEN t.v ELSE table
              /\ arr' = IF t.ok THEN [arr EXCEPT ![i] = SWrap(@ + x)] ELSE arr
    /\ UNCHANGED <<f_query, walk, overflow_checks, mvars, cvars>>

\* sum(i) with 0 <= i <= len.  sum takes &self and changes nothing, so what
\* the program does after a sum is what it does from the state before it:
\* the run is followed up to the sum.
DoSum ==
    /\ f_pc = "ready"
    /\ \E i \in 0 .. Len(arr) :
          \E out \in {Sum(table, i)} :
              /\ f_pc' = IF out.ok THEN "asked" ELSE "panicked"
              /\ f_query' = [i |-> i, out |-> out]
    /\ UNCHANGED <<table, arr, walk, overflow_checks, mvars, cvars>>

NextFenwick == DoFenwickNew \/ DoFromSlice \/ DoPush \/ DoFenwickAdd \/ DoSum

SpecFenwick == InitFenwick /\ [][NextFenwick]_vars

\* Fenwick::add, one turn of the for_each: the iterator takes the item i and
\* computes its successor i + lsb(i), take_while tests i < n, and the
\* closure adds x to table[i].  pc tells how the turn ends: "adding" (the
\* loop goes on with the successor), "added" (add returns), "panicked".
AddItem(t, i, x) ==
    LET next == UAdd(i, Lsb(i))
    IN  IF ~next.ok THEN [pc |-> "panicked", table |-> t, i |-> i]
        ELSE IF ~(i < Len(t)) THEN [pc |-> "added", table |-> t, i |-> i]
        ELSE LET e == IAdd(t[i + 1], x)
             IN  IF ~e.ok THEN [pc |-> "panicked", table |-> t, i |-> i]
                 ELSE [pc |-> "adding",
                       table |-> [t EXCEPT ![i + 1] = e.v],
                       i |-> next.v]

\* The program calls add(i, x) with any usize i and any i64 x.
AddBegin ==
    /\ f_pc = "ready"
    /\ \E i \in Words, x \in Ints :
          walk' = [i0 |-> i, i |-> i, x |-> x, t0 |-> table,
                   turns |-> 0, written |-> {}]
    /\ f_pc' = "adding"
    /\ UNCHANGED <<table, arr, f_query, overflow_checks, mvars, cvars>>

\* One turn of the loop of add.  walk.turns counts the turns that wrote and
\* went on; a walk that ends writes each index below the table's length at
\* most once, so the call is followed no further than Len(table) + 1 of
\* them.  The run is followed up to the return of add.
AddTurn ==
    /\ f_pc = "adding"
    /\ walk.turns <= Len(table)
    /\ \E r \in {AddItem(table, walk.i, walk.x)} :
          /\ f_pc' = r.pc
          /\ table' = r.table
          /\ walk' = IF r.pc = "adding"
                     THEN [walk EXCEPT !.i = r.i,
                                       !.turns = @ + 1,
                                       !.written = @ \cup {walk.i}]
                     ELSE walk
    /\ UNCHANGED <<arr, f_query, overflow_checks, mvars, cvars>>

NextFenwickAdd == DoFenwickNew \/ DoFromSlice \/ AddBegin \/ AddTurn

SpecFenwickAdd == InitFenwick /\ [][NextFenwickAdd]_vars

\* ------------------------------------------------------------ mathematics

RECURSIVE Gcd(_, _)
Gcd(a, b) == IF b = 0 THEN a ELSE Gcd(b, a % b)

IsPrime(m) == m >= 2 /\ \A d \in 2 .. (m - 1) : m % d # 0

\* a^e mod m by e multiplications, starting from the residue of 1
RECURSIVE PowMod(_, _, _)
PowMod(a, e, m) == IF e = 0 THEN 1 % m ELSE (PowMod(a, e - 1, m) * a) % m

\* ----------------------------------------------------------------- claims

\* C1: every ModInt value the program holds satisfies 0 <= value < modulus,
\* after new and after any sequence of add, sub, mul, neg, div, inv, pow.
C1_ValueInRange == 0 <= self /\ self < modulus

\* C2: mul of two residues returns (a * b) mod modulus computed over the
\* integers: the product neither wraps around nor aborts.
C2_MulExact ==
    (op = "mul" /\ lhs < modulus /\ rhs < modulus)
        => (~panicked /\ self = (lhs * rhs) % modulus)

\* C3: for a prime modulus and 0 < a < modulus, inv(a) passes its
\* assertions and returns y with (y * a) mod modulus = 1.
C3_InvCorrect ==
    (op = "inv" /\ IsPrime(modulus) /\ 0 < lhs /\ lhs < modulus)
        => (~panicked /\ (self * lhs) % modulus = 1)

\* C4: inv(a) panics when a = 0 and when gcd(a, modulus) # 1, and
\* div(a, b) panics in the same cases of b.
C4_InvAborts ==
    /\ (op = "inv" /\ (lhs = 0 \/ Gcd(lhs, modulus) # 1)) => panicked
    /\ (op = "div" /\ (rhs = 0 \/ Gcd(rhs, modulus) # 1)) => panicked

\* C4's case: the modulus 6 and inv(3) of tests::inv.
C4_Witness == op = "inv" /\ modulus = 6 /\ lhs = 3 /\ panicked

\* C5: add(a, b) = (a + b) mod modulus, sub(a, b) = (a - b) mod modulus,
\* and subtracting b from add(a, b) gives back a.
C5_AddSubRoundTrip ==
    /\ [](/\ (op = "add" /\ lhs < modulus /\ rhs < modulus)
               => (~panicked /\ self = (lhs + rhs) % modulus)
          /\ (op = "sub" /\ lhs < modulus /\ rhs < modulus)
               => (~panicked /\ self = (lhs - rhs + modulus) % modulus))
    /\ [][(/\ op = "add" /\ lhs < modulus /\ rhs < modulus
            /\ op' = "sub" /\ rhs' = rhs)
               => (~panicked' /\ self' = lhs)]_vars

\* i!
RECURSIVE Factorial(_)
Factorial(i) == IF i = 0 THEN 1 ELSE i * Factorial(i - 1)

\* The binomial coefficient C(n, k), by Pascal's rule
RECURSIVE Binomial(_, _)
Binomial(n, k) ==
    IF k = 0 \/ k = n THEN 1 ELSE Binomial(n - 1, k - 1) + Binomial(n - 1, k)

\* Combination::new has returned the table comb.
Built == comb # NoComb

\* C6: pow(a, e) returns a^e mod modulus for every residue a and every
\* exponent e, e = 0 and e above the modulus included.
C6_PowCorrect ==
    (op = "pow" /\ lhs < modulus)
        => (~panicked /\ self = PowMod(lhs, rhs, modulus))

\* C7: in every table built by Combination::new(N, M) with N < M (M a prime,
\* as the spec requires of a modulus), for every i in [0, N]:
\* fac(i) = i! mod M and fac(i) * facinv(i) = 1 (mod M).
C7_FacinvInverse ==
    (Built /\ IsPrime(comb.modulus)) =>
        \A i \in 0 .. c_args.maximum :
            /\ Fac(comb, i) = Ok(Factorial(i) % comb.modulus)
            /\ Facinv(comb, i).ok
            /\ (Fac(comb, i).v * Facinv(comb, i).v) % comb.modulus = 1

\* C8: with a prime modulus M > N, com(n, k) = C(n, k) mod M for all
\* 0 <= k <= n <= N; com(n, 0) = com(n, n) = 1, com(n, k) = com(n, n - k)
\* and Pascal's rule modulo M.
C8_ComIsBinomial ==
    (Built /\ IsPrime(comb.modulus)) =>
        /\ (query.op = "com" /\ query.m <= query.n /\ query.n <= c_args.maximum)
              => query.out = Ok(Binomial(query.n, query.m) % comb.modulus)
        /\ \A n \in 0 .. c_args.maximum : \A k \in 0 .. n :
              /\ Com(comb, n, 0) = Ok(1)
              /\ Com(comb, n, n) = Ok(1)
              /\ Com(comb, n, k).ok
              /\ Com(comb, n, k) = Com(comb, n, n - k)
              /\ (1 <= k /\ k <= n - 1) =>
                    Com(comb, n, k).v =
                        (Com(comb, n - 1, k - 1).v + Com(comb, n - 1, k).v)
                            % comb.modulus

\* C9: Combination::new(N, M) fails when N >= M, fac(n) and facinv(n) fail
\* when n > N, com(n, k) fails when n < k or n > N, and inside the ranges
\* (N < M, k <= n <= N) none of them aborts.
C9_AbortsOnlyOutOfRange ==
    /\ c_pc # "start" => (Built <=> c_args.maximum < c_args.modulus)
    /\ query.op \in {"fac", "facinv"}
          => (query.out.ok <=> query.n <= c_args.maximum)
    /\ query.op = "com"
          => (query.out.ok <=> (query.m <= query.n /\ query.n <= c_args.maximum))

\* The sum of the elements at positions 1 .. i of the array a
RECURSIVE PrefixSum(_, _)
PrefixSum(a, i) == IF i = 0 THEN 0 ELSE PrefixSum(a, i - 1) + a[i]

C11_AddTerminates ==
    f_pc \in {"adding", "added"} =>
        /\ walk.turns <= Len(table)
        /\ walk.written \subseteq walk.i0 .. Len(arr)
        /\ walk.i0 > Len(arr) => table = walk.t0

====
